---- MODULE Spec2Model ----
(***************************************************************************)
(* Model of the TOK4 bot monitor: the entity store (models.py Bot), the    *)
(* monitor thread of app.py (monitor_loop, diagnosticar_bot,               *)
(* _run_checks_once), the request handlers that mutate the store           *)
(* (create_bot, update_bot, force_swap) and the signal checkers and        *)
(* decisions of utils.py and monitor.py.                                   *)
(*                                                                         *)
(* The store is a table of committed rows.  Every thread works through its *)
(* own ORM session: an object is a snapshot of a row taken when it is      *)
(* loaded, a commit writes the attributes that differ from the snapshot    *)
(* and expires every object of the session, and an expired object is       *)
(* reloaded on its next attribute access.  Time advances where the code    *)
(* sleeps.                                                                 *)
(***************************************************************************)
EXTENDS Integers, Sequences, FiniteSets, TLC

\* ---------------------------------------------------------------- bounds
MaxBots == 3        \* rows the table can hold (create_bot stops there)
MaxTime == 66       \* the clock stops the monitor's sleeps there (seconds)
MaxReq == 1         \* requests served (force_swap, create_bot, update_bot)
MaxProc == 3        \* processes of the deployment that share the table
MaxLogCalls == 5    \* add_log calls made

\* ------------------------------------------------------ program constants
MONITOR_INTERVAL == 60
STARTUP_GRACE_SECONDS == 15
DOUBLECHECK_DELAY_SECONDS == 5

Ids == 1..MaxBots
Reqs == 1..MaxReq
NoTs == -1                      \* a NULL timestamp / None
NoBot == 0
\* the probe verdict is one of Python's True, False, None
True == "True"
False == "False"
None == "None"

Statuses == {"ativo", "reserva", "inativo"}

Max2(a, b) == IF a >= b THEN a ELSE b
MinOf(S) == CHOOSE m \in S : \A x \in S : m <= x

RECURSIVE OrderById(_)
\* .order_by(Bot.id.asc()).all()
OrderById(S) == IF S = {} THEN << >>
                ELSE LET m == MinOf(S) IN << m >> \o OrderById(S \ {m})

\* ------------------------------------------------------------- the rows
NoRow == [status |-> "absent", failures |-> 0, updated_at |-> NoTs, last_ok |-> NoTs]
Expired == [status |-> "expired", failures |-> 0, updated_at |-> NoTs, last_ok |-> NoTs]

\* Bot(...) with the column defaults, as create_bot passes status
NewBot(st, t) == [status |-> st, failures |-> 0, updated_at |-> t, last_ok |-> NoTs]

touch(o, t) == [o EXCEPT !.updated_at = t]
\* a promotion that does not stamp last_ok
mark_active_unstamped(o, t) == touch([o EXCEPT !.status = "ativo", !.failures = 0], t)
mark_active(o, t) == touch([o EXCEPT !.status = "ativo", !.failures = 0, !.last_ok = t], t)
mark_reserve(o, t) == touch([o EXCEPT !.status = "reserva", !.failures = 0], t)
mark_inactive(o, t) == touch([o EXCEPT !.status = "inativo"], t)
\* an increment that stamps last_ok as well
increment_failure_stamp(o, t) ==
    touch([o EXCEPT !.failures = o.failures + 1, !.last_ok = t], t)
increment_failure(o, t) == touch([o EXCEPT !.failures = o.failures + 1], t)
\* a reset that records last_ok and leaves the count
reset_failures_keep(o, t) == touch([o EXCEPT !.last_ok = t], t)
reset_failures(o, t) == touch([o EXCEPT !.failures = 0, !.last_ok = t], t)

VARIABLES
    db,           \* the committed table bots: id -> row (NoRow: no such row)
    now,          \* the clock, seconds since the process started
    msess,        \* the monitor thread's session: [mem, orig]: id -> object
    mpc,          \* the monitor thread's position in monitor_loop
    started_at, cycle_started, in_grace,
    ativos,       \* the part of the cycle's list `ativos` still to iterate
    cur,          \* `bot` of the running iteration
    novo,         \* `novo` of the running failover
    npass,        \* decision passes run by diagnosticar_bot for `bot`
    diag,         \* the report diagnosticar_bot returns (a report it drops is not kept)
    fail_cnt,     \* `fail_cnt` of the running iteration
    outcome,      \* the log line of the last accounting: ok, recovered, down
    alert_state,  \* alert_state: id -> [present, last_fail_count, last_alert_ts]
    metrics,      \* metrics: checks_total, failures_total, switches_total
    sent,         \* send_whatsapp calls by title: down, swap, crit, forced
    fs,           \* the force_swap requests: [pc, atual, was, novo]
    served,       \* requests accepted so far
    FAIL_THRESHOLD,         \* int(os.getenv("FAIL_THRESHOLD", "3"))
    RETRY_CHECKS_PER_PASS,  \* int(os.getenv("RETRY_CHECKS_PER_PASS", "1"))
    MONITOR_CHAT_ID,        \* os.getenv("MONITOR_CHAT_ID"): "" when not set
    jitter,       \* the whole seconds random.uniform adds to a delay
    world,        \* id -> the world of that bot: what its checks can be answered
    chk_in,       \* the inputs of one isolated run of the checkers
    chk_out,      \* its verdicts and the three decisions taken from them
    procs,        \* the processes: [kind, host, enabled, fcntl, pc]
    filelock,     \* host -> the process holding flock on /tmp/tok4_monitor.lock
    s_ativos,     \* monitor.py monitor_loop: its list `ativos`
    s_reserva,    \* monitor.py monitor_loop: its list `reserva`
    twilio,       \* what send_whatsapp meets: sent, failed, not configured
    loaded,       \* request -> metrics["switches_total"] as its `+= 1` read it
    monitor_logs, \* monitor_logs: the lines kept, each [n, by]
    log_calls,    \* add_log calls made so far
    MAX_LOGS      \* int(os.getenv("MAX_LOGS", "500"))

vars == << db, now, msess, mpc, started_at, cycle_started, in_grace, ativos, cur,
           novo, npass, diag, fail_cnt, outcome, alert_state, metrics, sent, fs, served,
           FAIL_THRESHOLD, RETRY_CHECKS_PER_PASS, MONITOR_CHAT_ID, jitter, world,
           chk_in, chk_out, procs, filelock, s_ativos, s_reserva, twilio,
           loaded, monitor_logs, log_calls, MAX_LOGS >>

\* the configuration read from the environment at import, the world, and
\* the processes started against the table
envvars == << FAIL_THRESHOLD, RETRY_CHECKS_PER_PASS, MONITOR_CHAT_ID, jitter, world,
              procs, filelock, s_ativos, s_reserva, twilio, loaded, monitor_logs,
              log_calls, MAX_LOGS >>
chkvars == << chk_in, chk_out >>

monvars == << msess, mpc, started_at, cycle_started, in_grace, ativos, cur, novo,
              npass, diag, fail_cnt, outcome, alert_state >>

\* --------------------------------------------------------- the session
NoSession == [mem |-> [b \in Ids |-> Expired], orig |-> [b \in Ids |-> Expired]]

\* a query returned the rows S: objects not in the session, or expired, are
\* loaded; a loaded object keeps its attributes
Load(s, d, S) ==
    [mem  |-> [b \in Ids |-> IF b \in S /\ s.mem[b] = Expired THEN d[b] ELSE s.mem[b]],
     orig |-> [b \in Ids |-> IF b \in S /\ s.mem[b] = Expired THEN d[b] ELSE s.orig[b]]]

SetObj(s, b, o) == [s EXCEPT !.mem[b] = o]

\* the UPDATE of one object: the attributes whose value differs from the
\* loaded one; updated_at has onupdate=datetime.utcnow
FlushRow(row, o, og, t) ==
    IF o = Expired \/ o = og THEN row
    ELSE [status     |-> IF o.status # og.status THEN o.status ELSE row.status,
          failures   |-> IF o.failures # og.failures THEN o.failures ELSE row.failures,
          last_ok    |-> IF o.last_ok # og.last_ok THEN o.last_ok ELSE row.last_ok,
          updated_at |-> IF o.updated_at # og.updated_at THEN o.updated_at ELSE t]

\* db.session.commit() of safe_commit
Commit(s, d, t) == [b \in Ids |-> IF d[b] = NoRow THEN NoRow
                                  ELSE FlushRow(d[b], s.mem[b], s.orig[b], t)]

\* get_bots_from_db
WithStatus(d, st) == {b \in Ids : d[b].status = st}
ativos_of(d) == OrderById(WithStatus(d, "ativo"))
reserva_of(d) == OrderById(WithStatus(d, "reserva"))


\* ------------------------------------------------- the signal checkers
\* What the remote side answers to one call: a status line and a body
\* ("200 malformed": a body r.json() cannot parse), or a transport exception.
TokenResponses == {"200 ok", "200 not ok", "200 malformed", "401", "exception"}
LinkResponses == {"200", "302", "404", "500", "exception"}
ProbeResponses == {"200 ok", "200 not ok", "200 malformed", "403", "exception"}
\* getWebhookInfo, 200 and ok: a url and nothing else; a url and a
\* last_error_date of a moment ago, or of long ago; a url and
\* pending_update_count > 0; no url
WebhookResponses == {"healthy", "last_error", "old last_error", "pending", "no url",
                     "200 not ok", "200 malformed", "500", "exception"}
Responses == [rt : TokenResponses, rl : LinkResponses, rp : ProbeResponses,
              rw : WebhookResponses]

check_token(token, r) == IF token = "" THEN FALSE ELSE r = "200 ok"

check_link(url, r) == IF url = "" THEN FALSE ELSE r \in {"200", "302"}

check_probe(token, chat_id, r) ==
    IF token = "" \/ chat_id = "" THEN None
    ELSE IF r = "200 ok" THEN True ELSE False

check_webhook(token, r) == IF token = "" THEN FALSE ELSE r = "healthy"

\* a decision that takes a probe that did not run for a failed probe
decision_app_strict(token_ok, url_ok, probe_ok, webhook_ok) ==
    token_ok /\ probe_ok = True

\* decision_ok of app.py _run_checks_once
decision_app(token_ok, url_ok, probe_ok, webhook_ok) ==
    token_ok /\ (probe_ok = True \/ probe_ok = None)

\* decision_ok of utils.py diagnosticar_bot
decision_utils(token_ok, url_ok, probe_ok, webhook_ok) ==
    token_ok /\ webhook_ok /\ (probe_ok = True \/ probe_ok = None)

\* diag["decision_ok"] of monitor.py diagnosticar_bot
decision_monitor(token_ok, url_ok, probe_ok, webhook_ok) ==
    token_ok /\ url_ok /\ (probe_ok = True \/ probe_ok = None)

Verdicts(token, url, chat_id, r) ==
    [token_ok   |-> check_token(token, r.rt),
     url_ok     |-> check_link(url, r.rl),
     probe_ok   |-> check_probe(token, chat_id, r.rp),
     webhook_ok |-> check_webhook(token, r.rw)]

\* the report of app.py _run_checks_once over four verdicts
Report(v) ==
    [token_ok |-> v.token_ok, url_ok |-> v.url_ok, probe_ok |-> v.probe_ok,
     webhook_ok |-> v.webhook_ok,
     decision_ok |-> decision_app(v.token_ok, v.url_ok, v.probe_ok, v.webhook_ok)]

_run_checks_once(token, url, chat_id, r) == Report(Verdicts(token, url, chat_id, r))

NoDiag == [token_ok |-> FALSE, url_ok |-> FALSE, probe_ok |-> None,
           webhook_ok |-> FALSE, decision_ok |-> FALSE]

\* What the remote side can answer to the checks of one bot: anything; or
\* anything to getMe and to the probe, behind a target and a webhook that
\* are healthy; or a valid token and a healthy webhook behind a target
\* answering 500 / 200.
Worlds == {"any", "token", "target 500", "target 200"}
Answers(w) ==
    IF w = "any"
    THEN [rt |-> TokenResponses, rl |-> LinkResponses, rp |-> ProbeResponses,
          rw |-> WebhookResponses]
    ELSE IF w = "token"
    THEN [rt |-> TokenResponses, rl |-> {"200"}, rp |-> ProbeResponses,
          rw |-> {"healthy"}]
    ELSE [rt |-> {"200 ok"},
          rl |-> IF w = "target 500" THEN {"500"} ELSE {"200"},
          rp |-> {"200 ok"},
          rw |-> {"healthy"}]

\* the reports one pass over a stored bot can produce in the world w: the
\* reports of _run_checks_once("token", "url", chat_id, r) over the answers
\* r of w (create_bot stores no bot without token and redirect_url)
PassReports(chat_id, w) ==
    LET T == {check_token("token", r) : r \in Answers(w).rt}
        U == {check_link("url", r) : r \in Answers(w).rl}
        P == {check_probe("token", chat_id, r) : r \in Answers(w).rp}
        W == {check_webhook("token", r) : r \in Answers(w).rw}
    IN  {Report([token_ok |-> t, url_ok |-> u, probe_ok |-> p, webhook_ok |-> h]) :
            t \in T, u \in U, p \in P, h \in W}

\* ------------------------------------------------------ the monitor thread
\* twilio_client is None or TWILIO_FROM / ADMIN_WHATSAPP is not set; or
\* messages.create returns; or messages.create raises
TwilioOutcomes == {"not configured", "sent", "failed"}

\* a send_whatsapp that lets the exception of messages.create out: the
\* caller is left at "dead"
send_whatsapp_raising(tw, pc) == IF tw = "failed" THEN "dead" ELSE pc

\* the position of the caller after send_whatsapp(title, details): the
\* function returns in the three cases (lines 136-138, 145-151, 152-153)
send_whatsapp(tw, pc) == pc

NoAlert == [present |-> FALSE, last_fail_count |-> 0, last_alert_ts |-> NoTs]

Listed(d) == WithStatus(d, "ativo") \cup WithStatus(d, "reserva")

\* a loop that leaves the list for the next sweep whatever is left of it
NextPc_sleep(rest) == "sleep"

\* the position after one iteration of `for bot in ativos`
NextPc(rest) == IF rest = << >> THEN "sleep" ELSE "iter"

\* lines 327-332: started_at, the first query, "Monitor Iniciado"
MonitorStart ==
    /\ mpc = "start"
    /\ started_at' = now
    /\ msess' = Load(msess, db, Listed(db))
    /\ mpc' = send_whatsapp(twilio, "cycle")
    /\ UNCHANGED << db, now, cycle_started, in_grace, ativos, cur, novo, npass, diag,
                    fail_cnt, outcome, alert_state, metrics, sent, fs, served, envvars,
                    chkvars >>

\* lines 335-337: the head of `while True`
CycleBegin ==
    /\ mpc = "cycle"
    /\ cycle_started' = now
    /\ in_grace' = (now - started_at < STARTUP_GRACE_SECONDS)
    /\ ativos' = ativos_of(db)
    /\ msess' = Load(msess, db, Listed(db))
    /\ mpc' = NextPc(ativos_of(db))
    /\ UNCHANGED << db, now, started_at, cur, novo, npass, diag, fail_cnt, outcome,
                    alert_state, metrics, sent, fs, served, envvars, chkvars >>

\* the refresh of an expired object whose row is gone raises
\* ObjectDeletedError
ObjectDeleted(s, d, b) == s.mem[b] = Expired /\ d[b] = NoRow

\* lines 339-342: the next bot of the list; reading bot.name reloads an
\* expired object
IterStart ==
    /\ mpc = "iter"
    /\ ~ObjectDeleted(msess, db, Head(ativos))
    /\ cur' = Head(ativos)
    /\ ativos' = Tail(ativos)
    /\ msess' = Load(msess, db, {Head(ativos)})
    /\ metrics' = [metrics EXCEPT !.checks_total = @ + 1]
    /\ novo' = NoBot
    /\ mpc' = "pass1"
    /\ UNCHANGED << db, now, started_at, cycle_started, in_grace, npass, diag, fail_cnt,
                    outcome, alert_state, sent, fs, served, envvars, chkvars >>

\* a protocol that runs RETRY_CHECKS_PER_PASS rounds after the second pass
ExtraRounds_all == Max2(0, RETRY_CHECKS_PER_PASS)

\* the rounds diagnosticar_bot runs after a failed second pass (line 307)
ExtraRounds == Max2(0, RETRY_CHECKS_PER_PASS - 1)

\* a protocol that gives up at the first failed pass
AfterFail_once(done) == "account"

\* after the failed pass number `done`: line 297, line 307, or line 315
AfterFail(done) == IF done = 1 THEN "pass2"
                   ELSE IF done < 2 + ExtraRounds THEN "xpass" ELSE "account"

\* a pass that goes on to the next pass whatever it returned
AfterPass_retry(ok, done) == AfterFail(done)

\* lines 294-295, 301-303, 311-314: a pass that returned ok ends
\* diagnosticar_bot with its report
AfterPass(ok, done) == IF ok THEN "account" ELSE AfterFail(done)

\* diagnosticar_bot lines 293-295: the first pass
Pass1 ==
    /\ mpc = "pass1"
    /\ \E d \in PassReports(MONITOR_CHAT_ID, world[cur]) :
          /\ mpc' = AfterPass(d.decision_ok, 1)
          /\ diag' = IF d.decision_ok \/ AfterFail(1) = "account" THEN d ELSE NoDiag
    /\ npass' = 1
    /\ UNCHANGED << db, now, msess, started_at, cycle_started, in_grace, ativos, cur,
                    novo, fail_cnt, outcome, alert_state, metrics, sent, fs, served,
                    envvars, chkvars >>

\* diagnosticar_bot lines 297-306: time.sleep(delay), then the second pass
Pass2 ==
    /\ mpc = "pass2"
    /\ \E j \in jitter :
          /\ now + DOUBLECHECK_DELAY_SECONDS + j <= MaxTime
          /\ now' = now + DOUBLECHECK_DELAY_SECONDS + j
    /\ \E d \in PassReports(MONITOR_CHAT_ID, world[cur]) :
          /\ mpc' = AfterPass(d.decision_ok, 2)
          /\ diag' = IF d.decision_ok \/ AfterFail(2) = "account" THEN d ELSE NoDiag
    /\ npass' = 2
    /\ UNCHANGED << db, msess, started_at, cycle_started, in_grace, ativos, cur,
                    novo, fail_cnt, outcome, alert_state, metrics, sent, fs, served,
                    envvars, chkvars >>

\* diagnosticar_bot lines 307-316: one extra round, its sleep and its pass
ExtraPass ==
    /\ mpc = "xpass"
    /\ \E j \in jitter :
          /\ now + 1 + j <= MaxTime
          /\ now' = now + 1 + j
    /\ \E d \in PassReports(MONITOR_CHAT_ID, world[cur]) :
          /\ mpc' = AfterPass(d.decision_ok, npass + 1)
          /\ diag' = IF d.decision_ok \/ AfterFail(npass + 1) = "account" THEN d ELSE NoDiag
    /\ npass' = npass + 1
    /\ UNCHANGED << db, msess, started_at, cycle_started, in_grace, ativos, cur,
                    novo, fail_cnt, outcome, alert_state, metrics, sent, fs, served,
                    envvars, chkvars >>

\* lines 377-383: should_alert
should_alert(st, cnt, threshold) ==
    LET last_fail_seen == IF st.present THEN st.last_fail_count ELSE 0
    IN  cnt # last_fail_seen \/ cnt = threshold

\* an accounting that leaves the alert state of the bot as it was
alert_state_kept(st) == [st EXCEPT !.present = TRUE]

\* lines 369-370: alert_state[bot.id] after a report that is ok
alert_state_ok(st) == [present |-> TRUE, last_fail_count |-> 0, last_alert_ts |-> NoTs]

\* lines 363-370: the report is ok
AccountOk ==
    /\ mpc = "account"
    /\ diag.decision_ok
    /\ LET s1 == SetObj(msess, cur, reset_failures(msess.mem[cur], now))
       IN  /\ db' = Commit(s1, db, now)
           /\ msess' = NoSession
    /\ alert_state' = [alert_state EXCEPT ![cur] = alert_state_ok(@)]
    /\ outcome' = IF npass = 1 THEN "ok" ELSE "recovered"
    /\ diag' = NoDiag
    /\ npass' = 0
    /\ mpc' = NextPc(ativos)
    /\ UNCHANGED << now, started_at, cycle_started, in_grace, ativos, cur, novo,
                    fail_cnt, metrics, sent, fs, served, envvars, chkvars >>

\* lines 372-399: the report is not ok: the count, the alert, and one of
\* the commit under grace, the demotion, or nothing
AccountDown ==
    /\ mpc = "account"
    /\ ~diag.decision_ok
    /\ LET o1  == increment_failure(msess.mem[cur], now)
           cnt == o1.failures
           s1  == SetObj(msess, cur, o1)
           s2  == SetObj(msess, cur, mark_reserve(o1, now))
           alerted(pc) == IF should_alert(alert_state[cur], cnt, FAIL_THRESHOLD)
                          THEN send_whatsapp(twilio, pc) ELSE pc
       IN  /\ fail_cnt' = cnt
           /\ metrics' = [metrics EXCEPT !.failures_total = @ + 1]
           /\ sent' = IF should_alert(alert_state[cur], cnt, FAIL_THRESHOLD)
                      THEN [sent EXCEPT !.down = @ + 1] ELSE sent
           /\ alert_state' = [alert_state EXCEPT ![cur] =
                                 [present |-> TRUE, last_fail_count |-> cnt,
                                  last_alert_ts |-> now]]
           /\ IF in_grace
              THEN /\ db' = Commit(s1, db, now)
                   /\ msess' = NoSession
                   /\ mpc' = alerted(NextPc(ativos))
              ELSE IF cnt >= FAIL_THRESHOLD
              THEN /\ db' = Commit(s2, db, now)
                   /\ msess' = NoSession
                   /\ mpc' = alerted("swap")
              ELSE /\ db' = db
                   /\ msess' = s1
                   /\ mpc' = alerted(NextPc(ativos))
    /\ outcome' = "down"
    /\ diag' = NoDiag
    /\ npass' = 0
    /\ UNCHANGED << now, started_at, cycle_started, in_grace, ativos, cur, novo,
                    fs, served, envvars, chkvars >>

\* lines 401-413: the query after the demotion, then novo.mark_active(),
\* safe_commit(), the metric and the alert, or "Falha Critica"
Swap ==
    /\ mpc = "swap"
    /\ LET reserva_atual == reserva_of(db)
           s1 == Load(msess, db, Listed(db))
       IN  IF reserva_atual # << >>
           THEN /\ novo' = reserva_atual[1]
                /\ db' = Commit(SetObj(s1, reserva_atual[1],
                                       mark_active(s1.mem[reserva_atual[1]], now)),
                                db, now)
                /\ msess' = NoSession
                /\ metrics' = [metrics EXCEPT !.switches_total = @ + 1]
                /\ sent' = [sent EXCEPT !.swap = @ + 1]
           ELSE /\ novo' = NoBot
                /\ db' = db
                /\ msess' = s1
                /\ metrics' = metrics
                /\ sent' = [sent EXCEPT !.crit = @ + 1]
    /\ mpc' = send_whatsapp(twilio, NextPc(ativos))
    /\ UNCHANGED << now, started_at, cycle_started, in_grace, ativos, cur, npass,
                    diag, fail_cnt, outcome, alert_state, fs, served, envvars, chkvars >>

\* lines 415-416: time.sleep(max(1.0, interval - elapsed))
CycleSleep ==
    /\ mpc = "sleep"
    /\ LET elapsed == now - cycle_started
           d == Max2(1, MONITOR_INTERVAL - elapsed)
       IN  /\ now + d <= MaxTime
           /\ now' = now + d
    /\ mpc' = "cycle"
    /\ UNCHANGED << db, msess, started_at, cycle_started, in_grace, ativos, cur, novo,
                    npass, diag, fail_cnt, outcome, alert_state, metrics, sent, fs,
                    served, envvars, chkvars >>

\* line 340 raises: nothing in monitor_loop catches it, the thread
\* "tok4-monitor" ends and nothing starts it again
IterRaise ==
    /\ mpc = "iter"
    /\ ObjectDeleted(msess, db, Head(ativos))
    /\ mpc' = "dead"
    /\ UNCHANGED << db, now, msess, started_at, cycle_started, in_grace, ativos, cur,
                    novo, npass, diag, fail_cnt, outcome, alert_state, metrics, sent,
                    fs, served, envvars, chkvars >>

Monitor == \/ MonitorStart \/ CycleBegin \/ IterStart \/ Pass1 \/ Pass2 \/ ExtraPass
           \/ AccountOk \/ AccountDown \/ Swap \/ CycleSleep

\* ---------------------------------------------------- the request handlers
NoReq == [pc |-> "idle", atual |-> NoBot, was |-> "absent", novo |-> NoBot]

\* one object written by a request's own session
Write(d, b, o, og, t) == [d EXCEPT ![b] = IF d[b] = NoRow THEN NoRow
                                          ELSE FlushRow(d[b], o, og, t)]

\* force_swap lines 651-652: atual.mark_reserve(), safe_commit()
force_demote(d, b, t) == Write(d, b, mark_reserve(d[b], t), d[b], t)

\* force_swap lines 655-661 with the last bot of the list taken for novo
force_promote_newest(d, t) ==
    LET reserva == reserva_of(d)
        n == reserva[Len(reserva)]
    IN  IF reserva = << >> THEN d
        ELSE Write(d, n, mark_active(d[n], t), d[n], t)

\* force_swap lines 655-661: the query, novo = reserva[0], novo.mark_active(),
\* safe_commit(); the store is left alone when the list is empty
force_promote(d, t) ==
    LET reserva == reserva_of(d)
        n == reserva[1]
    IN  IF reserva = << >> THEN d
        ELSE Write(d, n, mark_active(d[n], t), d[n], t)

\* force_swap lines 646-652: Bot.query.get, atual.mark_reserve(), safe_commit()
\* (a request for an id with no row is answered 404 and writes nothing)
ForceDemote(r, b) ==
    /\ served < MaxReq
    /\ r = served + 1
    /\ served' = served + 1
    /\ db[b] # NoRow
    /\ fs' = [fs EXCEPT ![r] = [NoReq EXCEPT !.pc = "demoted", !.atual = b,
                                            !.was = db[b].status]]
    /\ db' = force_demote(db, b, now)
    /\ UNCHANGED << now, monvars, metrics, sent, envvars, chkvars >>

\* force_swap lines 655-671: the query, reserva[0], novo.mark_active(),
\* safe_commit(), the metric and the alert, or 409
ForcePromote(r) ==
    /\ fs[r].pc = "demoted"
    /\ db' = force_promote(db, now)
    /\ LET reserva == reserva_of(db)
       IN  IF reserva = << >>
           THEN /\ fs' = [fs EXCEPT ![r].pc = send_whatsapp(twilio, "done")]
                /\ sent' = [sent EXCEPT !.nores = @ + 1]
                /\ metrics' = metrics
           ELSE /\ fs' = [fs EXCEPT ![r].pc = send_whatsapp(twilio, "done"),
                                    ![r].novo = reserva[1]]
                /\ metrics' = [metrics EXCEPT !.switches_total = @ + 1]
                /\ sent' = [sent EXCEPT !.forced = @ + 1]
    /\ UNCHANGED << now, monvars, served, envvars, chkvars >>

\* create_bot: Bot(name, token, redirect_url, status) under the next id
create_bot(st) ==
    /\ served < MaxReq
    /\ \E b \in Ids :
          /\ db[b] = NoRow
          /\ \A c \in Ids : c < b => db[c] # NoRow
          /\ db' = [db EXCEPT ![b] = NewBot(st, now)]
    /\ served' = served + 1
    /\ UNCHANGED << now, monvars, metrics, sent, fs, envvars, chkvars >>

\* update_bot: bot.status = data.get("status", bot.status), safe_commit();
\* a payload that changes no column writes nothing and is left out
update_bot(b, st) ==
    /\ served < MaxReq
    /\ db[b] # NoRow
    /\ st # db[b].status
    /\ db' = [db EXCEPT ![b] = [@ EXCEPT !.status = st, !.updated_at = now]]
    /\ served' = served + 1
    /\ UNCHANGED << now, monvars, metrics, sent, fs, envvars, chkvars >>

\* delete_bot: Bot.query.get, db.session.delete(bot), safe_commit()
delete_bot(b) ==
    /\ served < MaxReq
    /\ db[b] # NoRow
    /\ db' = [db EXCEPT ![b] = NoRow]
    /\ served' = served + 1
    /\ UNCHANGED << now, monvars, metrics, sent, fs, envvars, chkvars >>

Requests == \/ \E r \in Reqs, b \in Ids : ForceDemote(r, b)
            \/ \E r \in Reqs : ForcePromote(r)
            \/ \E st \in Statuses : create_bot(st)
            \/ \E b \in Ids, st \in Statuses : update_bot(b, st)

\* ------------------------------------------------------------ the processes
Procs == 1..MaxProc
NoPid == 0
Hosts == {"container 1", "container 2"}

\* kind "app": a worker that imports app.py (lines 721-722); kind "script":
\* python monitor.py; enabled: MONITOR_ENABLED as that process reads it;
\* fcntl: whether `import fcntl` and open() succeed there
NoProc == [kind |-> "none", host |-> "container 1", enabled |-> TRUE, fcntl |-> TRUE,
           pc |-> "none"]
TheService == [kind |-> "app", host |-> "container 1", enabled |-> TRUE,
               fcntl |-> TRUE, pc |-> "monitor_loop"]

\* flock(LOCK_EX | LOCK_NB) on the lock file of the process's own /tmp, with
\* every exception answered False
_try_acquire_file_lock(p) == procs[p].fcntl /\ filelock[procs[p].host] = NoPid

\* a worker that calls _start_monitor_background() again while it serves
_start_monitor_background_again(p) ==
    /\ procs[p].kind = "app"
    /\ procs[p].pc \in {"import", "serving"}
    /\ IF procs[p].enabled /\ procs[p].fcntl /\ filelock[procs[p].host] = NoPid
       THEN /\ filelock' = [filelock EXCEPT ![procs[p].host] = p]
            /\ procs' = [procs EXCEPT ![p].pc = "monitor_loop"]
       ELSE /\ filelock' = filelock
            /\ procs' = [procs EXCEPT ![p].pc = "serving"]
    /\ UNCHANGED << db, now, monvars, metrics, sent, fs, served, FAIL_THRESHOLD,
                    RETRY_CHECKS_PER_PASS, MONITOR_CHAT_ID, monitor_logs, log_calls,
                    MAX_LOGS, twilio, loaded, jitter, world, chkvars,
                    s_ativos, s_reserva >>

\* app.py lines 721-722 at import: _start_monitor_background()
_start_monitor_background(p) ==
    /\ procs[p].kind = "app"
    /\ procs[p].pc = "import"
    /\ IF procs[p].enabled /\ _try_acquire_file_lock(p)
       THEN /\ filelock' = [filelock EXCEPT ![procs[p].host] = p]
            /\ procs' = [procs EXCEPT ![p].pc = "monitor_loop"]
       ELSE /\ filelock' = filelock
            /\ procs' = [procs EXCEPT ![p].pc = "serving"]
    /\ UNCHANGED << db, now, monvars, metrics, sent, fs, served, FAIL_THRESHOLD,
                    RETRY_CHECKS_PER_PASS, MONITOR_CHAT_ID, monitor_logs, log_calls,
                    MAX_LOGS, twilio, loaded, jitter, world, chkvars,
                    s_ativos, s_reserva >>

\* monitor.py lines 197-198: monitor_loop() with no lock taken
monitor_main(p) ==
    /\ procs[p].kind = "script"
    /\ procs[p].pc = "import"
    /\ procs' = [procs EXCEPT ![p].pc = "monitor_loop"]
    /\ UNCHANGED << db, now, monvars, metrics, sent, fs, served, FAIL_THRESHOLD,
                    RETRY_CHECKS_PER_PASS, MONITOR_CHAT_ID, monitor_logs, log_calls,
                    MAX_LOGS, twilio, loaded, jitter, world, chkvars,
                    s_ativos, s_reserva, filelock >>

\* a worker that runs the monitor ends (it is restarted or killed): the
\* file _filelock is closed with the process and the flock is released
worker_exit(p) ==
    /\ procs[p].kind = "app"
    /\ procs[p].pc = "monitor_loop"
    /\ procs' = [procs EXCEPT ![p].pc = "exited"]
    /\ filelock' = [h \in Hosts |-> IF filelock[h] = p THEN NoPid ELSE filelock[h]]
    /\ UNCHANGED << db, now, monvars, metrics, sent, fs, served, FAIL_THRESHOLD,
                    RETRY_CHECKS_PER_PASS, MONITOR_CHAT_ID, monitor_logs, log_calls,
                    MAX_LOGS, twilio, loaded, jitter, world, chkvars,
                    s_ativos, s_reserva >>

\* ------------------------------------------------------ the specification
\* the rows found at process start: bot 1 and possibly bot 2, each ativo or
\* reserva, never failed, last written before the process started
StartIds == {1, 2}
StartRows == {d \in [Ids -> {NoRow, NewBot("ativo", -10), NewBot("reserva", -10)}] :
                /\ d[1] # NoRow
                /\ \A b \in Ids \ StartIds : d[b] = NoRow}

InitMonitor ==
    /\ now = 0
    /\ msess = NoSession
    /\ mpc = "start"
    /\ started_at = 0
    /\ cycle_started = 0
    /\ in_grace = TRUE
    /\ ativos = << >>
    /\ cur = NoBot
    /\ novo = NoBot
    /\ npass = 0
    /\ diag = NoDiag
    /\ fail_cnt = 0
    /\ outcome = "none"
    /\ alert_state = [b \in Ids |-> NoAlert]
    /\ metrics = [checks_total |-> 0, failures_total |-> 0, switches_total |-> 0]
    /\ sent = [down |-> 0, swap |-> 0, crit |-> 0, forced |-> 0, nores |-> 0]
    /\ fs = [r \in Reqs |-> NoReq]
    /\ served = 0

\* one worker of app.py, holding the lock and running monitor_loop
InitService ==
    /\ procs = [p \in Procs |-> IF p = 1 THEN TheService ELSE NoProc]
    /\ filelock = [h \in Hosts |-> IF h = TheService.host THEN 1 ELSE NoPid]
    /\ s_ativos = << >>
    /\ s_reserva = << >>
    /\ loaded = [r \in Reqs |-> 0]
    /\ monitor_logs = << >>
    /\ log_calls = 0
    /\ MAX_LOGS = 500

\* no isolated run of the checkers: nothing to check, nothing reported
NoInput == [token |-> "", url |-> "", chat_id |-> "",
            r |-> [rt |-> "exception", rl |-> "exception", rp |-> "exception",
                   rw |-> "exception"]]
NoVerdict == [ran |-> FALSE, token_ok |-> FALSE, url_ok |-> FALSE, probe_ok |-> None,
              webhook_ok |-> FALSE, app |-> FALSE, utils |-> FALSE,
              monitor |-> FALSE]

InitChecks ==
    /\ chk_in = NoInput
    /\ chk_out = NoVerdict

\* the service under requests: the threshold of the end-to-end scenario,
\* one extra confirmation round, the probe not configured; the verdicts
\* the decision of _run_checks_once does not read (url_ok, webhook_ok) are
\* held ok, the token check may fail
Init ==
    /\ db \in StartRows
    /\ FAIL_THRESHOLD = 2
    /\ RETRY_CHECKS_PER_PASS = 2
    /\ MONITOR_CHAT_ID = ""
    /\ jitter = {0}
    /\ world = [b \in Ids |-> "token"]
    /\ twilio = "not configured"
    /\ InitMonitor
    /\ InitService
    /\ InitChecks

Next == Monitor \/ Requests

Spec == Init /\ [][Next]_vars

\* ------------------------------------------- the monitor thread on its own
\* Rows last written ten or twenty seconds before the process started.
SweepRows == {d \in [Ids -> {NoRow, NewBot("ativo", -10), NewBot("ativo", -20),
                             NewBot("reserva", -10), NewBot("reserva", -20)}] :
                /\ d[1] # NoRow
                /\ \A b \in Ids : (d[b] = NoRow) = (b > 3)
                /\ WithStatus(d, "ativo") # {}}

\* two bots: e1 ativo behind a failing target, e2 reserva
PairRows(e1, e2) == [b \in Ids |-> IF b = e1 THEN NewBot("ativo", -10)
                                   ELSE IF b = e2 THEN NewBot("reserva", -10)
                                   ELSE NoRow]
PairWorld(e1, e2) == [b \in Ids |-> IF b = e1 THEN "target 500"
                                    ELSE IF b = e2 THEN "target 200" ELSE "any"]

InitSweep ==
    /\ \/ /\ db \in SweepRows
          /\ world = [b \in Ids |-> "any"]
          /\ FAIL_THRESHOLD \in {1, 2, 3}
          /\ RETRY_CHECKS_PER_PASS \in {1, 2}
       \/ /\ \E e1, e2 \in StartIds :
                /\ e1 # e2
                /\ db = PairRows(e1, e2)
                /\ world = PairWorld(e1, e2)
          /\ FAIL_THRESHOLD = 2
          /\ RETRY_CHECKS_PER_PASS = 1
    /\ MONITOR_CHAT_ID \in {"", "chat"}
    /\ jitter = {0}
    /\ InitMonitor
    /\ twilio = "not configured"
    /\ InitService
    /\ InitChecks

SpecSweep == InitSweep /\ [][Monitor]_vars

\* ------------------------------------------------ the checkers on their own
CheckInputs == [token : {"", "token"}, url : {"", "url"}, chat_id : {"", "chat"},
                r : Responses]

\* one run of the four checkers and of the three decisions over their verdicts
RunChecks ==
    /\ ~chk_out.ran
    /\ LET v == Verdicts(chk_in.token, chk_in.url, chk_in.chat_id, chk_in.r)
           d == _run_checks_once(chk_in.token, chk_in.url, chk_in.chat_id, chk_in.r)
       IN chk_out' =
            [ran |-> TRUE,
             token_ok |-> v.token_ok, url_ok |-> v.url_ok, probe_ok |-> v.probe_ok,
             webhook_ok |-> v.webhook_ok,
             app |-> d.decision_ok,
             utils |-> decision_utils(v.token_ok, v.url_ok, v.probe_ok, v.webhook_ok),
             monitor |-> decision_monitor(v.token_ok, v.url_ok, v.probe_ok,
                                          v.webhook_ok)]
    /\ UNCHANGED << db, now, monvars, metrics, sent, fs, served, envvars, chk_in >>

InitDecide ==
    /\ db = [b \in Ids |-> NoRow]
    /\ FAIL_THRESHOLD = 3
    /\ RETRY_CHECKS_PER_PASS = 1
    /\ MONITOR_CHAT_ID = ""
    /\ jitter = {0}
    /\ world = [b \in Ids |-> "any"]
    /\ InitMonitor
    /\ twilio = "not configured"
    /\ InitService
    /\ chk_in \in CheckInputs
    /\ chk_out = NoVerdict

SpecDecide == InitDecide /\ [][RunChecks]_vars

\* the sweep and force_swap, whatever send_whatsapp meets
InitNotify ==
    /\ db \in StartRows
    /\ FAIL_THRESHOLD = 2
    /\ RETRY_CHECKS_PER_PASS = 2
    /\ MONITOR_CHAT_ID = ""
    /\ jitter = {0}
    /\ world = [b \in Ids |-> "token"]
    /\ twilio \in TwilioOutcomes
    /\ InitMonitor
    /\ InitService
    /\ InitChecks

NextNotify == \/ Monitor
              \/ \E r \in Reqs, b \in Ids : ForceDemote(r, b)
              \/ \E r \in Reqs : ForcePromote(r)

SpecNotify == InitNotify /\ [][NextNotify]_vars

\* what a payload can carry under "status": create_bot (line 579) and
\* update_bot (line 609) store the string as it comes
PayloadStatuses == Statuses \cup {"pausado"}

\* the service under requests whose payload is any JSON object
NextApi == \/ Monitor
           \/ \E r \in Reqs, b \in Ids : ForceDemote(r, b)
           \/ \E r \in Reqs : ForcePromote(r)
           \/ \E st \in PayloadStatuses : create_bot(st)
           \/ \E b \in Ids, st \in PayloadStatuses : update_bot(b, st)

SpecApi == Init /\ [][NextApi]_vars

\* the sweeps of one bot under every setting of RETRY_CHECKS_PER_PASS up
\* to three (the default of line 50 is 1)
InitProtocol ==
    /\ db = [b \in Ids |-> IF b = 1 THEN NewBot("ativo", -10) ELSE NoRow]
    /\ FAIL_THRESHOLD = 1
    /\ RETRY_CHECKS_PER_PASS \in 0..3
    /\ MONITOR_CHAT_ID \in {"", "chat"}
    /\ jitter = {0, 1}
    /\ world = [b \in Ids |-> "any"]
    /\ twilio = "not configured"
    /\ InitMonitor
    /\ InitService
    /\ InitChecks

SpecProtocol == InitProtocol /\ [][Monitor]_vars

\* force_swap lines 655-662 up to the read of `metrics["switches_total"]
\* += 1` (line 663, outside _state_lock): the promotion is committed and
\* the counter is read
ForcePromoteRead(r) ==
    /\ fs[r].pc = "demoted"
    /\ db' = force_promote(db, now)
    /\ LET reserva == reserva_of(db)
       IN  IF reserva = << >>
           THEN /\ fs' = [fs EXCEPT ![r].pc = send_whatsapp(twilio, "done")]
                /\ sent' = [sent EXCEPT !.nores = @ + 1]
                /\ loaded' = loaded
           ELSE /\ fs' = [fs EXCEPT ![r].pc = "adding", ![r].novo = reserva[1]]
                /\ sent' = sent
                /\ loaded' = [loaded EXCEPT ![r] = metrics.switches_total]
    /\ UNCHANGED << now, monvars, metrics, served, FAIL_THRESHOLD,
                    RETRY_CHECKS_PER_PASS, MONITOR_CHAT_ID, monitor_logs, log_calls,
                    MAX_LOGS, jitter, world, procs, filelock, s_ativos, s_reserva,
                    twilio, chkvars >>

\* force_swap lines 663-669: the store of `+= 1`, then the alert
ForcePromoteStore(r) ==
    /\ fs[r].pc = "adding"
    /\ metrics' = [metrics EXCEPT !.switches_total = loaded[r] + 1]
    /\ sent' = [sent EXCEPT !.forced = @ + 1]
    /\ fs' = [fs EXCEPT ![r].pc = send_whatsapp(twilio, "done")]
    /\ UNCHANGED << db, now, monvars, served, envvars, chkvars >>

\* the monitor thread and force_swap requests served by threads of the
\* same process
NextMetrics == \/ Monitor
               \/ \E r \in Reqs, b \in Ids : ForceDemote(r, b)
               \/ \E r \in Reqs : ForcePromoteRead(r)
               \/ \E r \in Reqs : ForcePromoteStore(r)

SpecMetrics == Init /\ [][NextMetrics]_vars

\* a log that keeps every line
add_log_unbounded(logs, line, max) == Append(logs, line)

\* add_log lines 120-123, under _state_lock: append, then pop(0) when the
\* list is longer than MAX_LOGS
add_log(logs, line, max) ==
    LET l == Append(logs, line)
    IN  IF Len(l) > max THEN Tail(l) ELSE l

\* the threads that call add_log: the main thread at import
\* (_start_monitor_background), the monitor thread, a request thread
LogThreads == {"MainThread", "tok4-monitor", "request"}

\* one call of add_log by one thread
AddLog(th) ==
    /\ log_calls < MaxLogCalls
    /\ log_calls' = log_calls + 1
    /\ monitor_logs' = add_log(monitor_logs, [n |-> log_calls + 1, by |-> th], MAX_LOGS)
    /\ UNCHANGED << db, now, monvars, metrics, sent, fs, served, FAIL_THRESHOLD,
                    RETRY_CHECKS_PER_PASS, MONITOR_CHAT_ID, jitter, world, procs,
                    filelock, s_ativos, s_reserva, twilio, loaded, MAX_LOGS, chkvars >>

\* the log under every MAX_LOGS from 0 to 3
InitLogs ==
    /\ db = [b \in Ids |-> NoRow]
    /\ FAIL_THRESHOLD = 3
    /\ RETRY_CHECKS_PER_PASS = 1
    /\ MONITOR_CHAT_ID = ""
    /\ jitter = {0}
    /\ world = [b \in Ids |-> "any"]
    /\ twilio = "not configured"
    /\ InitMonitor
    /\ InitChecks
    /\ procs = [p \in Procs |-> IF p = 1 THEN TheService ELSE NoProc]
    /\ filelock = [h \in Hosts |-> IF h = TheService.host THEN 1 ELSE NoPid]
    /\ s_ativos = << >>
    /\ s_reserva = << >>
    /\ loaded = [r \in Reqs |-> 0]
    /\ monitor_logs = << >>
    /\ log_calls = 0
    /\ MAX_LOGS \in 0..3

NextLogs == \E th \in LogThreads : AddLog(th)

SpecLogs == InitLogs /\ [][NextLogs]_vars

\* the sweep while bots are deleted through the API
InitFaults ==
    /\ db \in SweepRows
    /\ world = [b \in Ids |-> "token"]
    /\ FAIL_THRESHOLD \in {1, 2}
    /\ RETRY_CHECKS_PER_PASS \in {1, 2}
    /\ MONITOR_CHAT_ID = ""
    /\ jitter = {0}
    /\ InitMonitor
    /\ twilio = "not configured"
    /\ InitService
    /\ InitChecks

\* lines 403-405 when db.session.commit() raises (the connection drops,
\* the row of `novo` is gone): safe_commit rolls back and returns False,
\* so lines 406-411 are skipped
SwapRollback ==
    /\ mpc = "swap"
    /\ reserva_of(db) # << >>
    /\ novo' = reserva_of(db)[1]
    /\ msess' = NoSession
    /\ mpc' = NextPc(ativos)
    /\ UNCHANGED << db, now, started_at, cycle_started, in_grace, ativos, cur, npass,
                    diag, fail_cnt, outcome, alert_state, metrics, sent, fs, served,
                    envvars, chkvars >>

NextFaults == \/ Monitor \/ IterRaise \/ SwapRollback
              \/ \E b \in Ids : delete_bot(b)

SpecFaults == InitFaults /\ [][NextFaults]_vars

\* the failovers of a sweep whose 'ativo' bots keep failing: every bot the
\* loop reaches has its count at FAIL_THRESHOLD after the grace period, so
\* that lines 397-398 run for it; the clock, the counters and the alerts of
\* lines 405-410 are left out, the selection of line 403 does not read them
RotateDemote(b) ==
    /\ mpc # "swap"
    /\ db[b].status = "ativo"
    /\ cur' = b
    /\ LET s0 == Load(NoSession, db, Listed(db))
           s1 == SetObj(s0, b, mark_reserve(increment_failure(s0.mem[b], now), now))
       IN  db' = Commit(s1, db, now)
    /\ mpc' = "swap"
    /\ UNCHANGED << now, msess, started_at, cycle_started, in_grace, ativos, novo,
                    npass, diag, fail_cnt, outcome, alert_state, metrics, sent, fs,
                    served, envvars, chkvars >>

\* lines 400-404: the query after the demotion, novo = reserva_atual[0],
\* novo.mark_active(), safe_commit()
RotatePromote ==
    /\ mpc = "swap"
    /\ LET reserva_atual == reserva_of(db)
           s0 == Load(NoSession, db, Listed(db))
           n  == reserva_atual[1]
       IN  IF reserva_atual # << >>
           THEN /\ novo' = n
                /\ db' = Commit(SetObj(s0, n, mark_active(s0.mem[n], now)), db, now)
           ELSE /\ novo' = NoBot
                /\ db' = db
    /\ mpc' = "iter"
    /\ UNCHANGED << now, msess, started_at, cycle_started, in_grace, ativos, cur,
                    npass, diag, fail_cnt, outcome, alert_state, metrics, sent, fs,
                    served, envvars, chkvars >>

InitRotate ==
    /\ db \in SweepRows
    /\ world = [b \in Ids |-> "any"]
    /\ FAIL_THRESHOLD = 3
    /\ RETRY_CHECKS_PER_PASS = 1
    /\ MONITOR_CHAT_ID = ""
    /\ jitter = {0}
    /\ InitMonitor
    /\ twilio = "not configured"
    /\ InitService
    /\ InitChecks

NextRotate == RotatePromote \/ \E b \in Ids : RotateDemote(b)

\* the thread never leaves `while True` and the bots keep failing
SpecRotate == InitRotate /\ [][NextRotate]_vars /\ WF_vars(NextRotate)

\* ------------------------------------------- monitor.py: its own monitor_loop
\* the orders in which a query without order_by can return the rows S
Orders(S) == {q \in [1..Cardinality(S) -> S] :
                 \A i, j \in 1..Cardinality(S) : i # j => q[i] # q[j]}

\* a start that activates the whole reserve
FirstTwo_all(q) == q

\* monitor.py line 127: reserva[:2]
FirstTwo(q) == IF Len(q) <= 2 THEN q ELSE SubSeq(q, 1, 2)
\* a list that keeps the bot
Without_kept(q, b) == q

\* monitor.py lines 174-175: ativos.remove(bot)
Without(q, b) == SelectSeq(q, LAMBDA x : x # b)

\* monitor.py diagnosticar_bot: one pass, no webhook check
ScriptReports(chat_id, w) ==
    LET T == {check_token("token", r) : r \in Answers(w).rt}
        U == {check_link("url", r) : r \in Answers(w).rl}
        P == {check_probe("token", chat_id, r) : r \in Answers(w).rp}
    IN  {[token_ok |-> t, url_ok |-> u, probe_ok |-> p, webhook_ok |-> FALSE,
          decision_ok |-> decision_monitor(t, u, p, FALSE)] : t \in T, u \in U, p \in P}

\* monitor.py lines 122-137: the two queries, and two bots of the reserve
\* activated when no bot is ativo
ScriptStart ==
    /\ mpc = "start"
    /\ \E a \in Orders(WithStatus(db, "ativo")), r \in Orders(WithStatus(db, "reserva")) :
          IF a = << >> /\ r # << >>
          THEN LET s0 == Load(msess, db, Listed(db))
                   two == {r[i] : i \in 1..Len(FirstTwo(r))}
                   s1 == [s0 EXCEPT !.mem = [b \in Ids |-> IF b \in two
                                                          THEN mark_active(s0.mem[b], now)
                                                          ELSE s0.mem[b]]]
                   d1 == Commit(s1, db, now)
               IN  /\ db' = d1
                   /\ msess' = Load(NoSession, d1, Listed(d1))
                   /\ s_ativos' \in Orders(WithStatus(d1, "ativo"))
                   /\ s_reserva' \in Orders(WithStatus(d1, "reserva"))
          ELSE /\ db' = db
               /\ msess' = Load(msess, db, Listed(db))
               /\ s_ativos' = a
               /\ s_reserva' = r
    /\ mpc' = "s_cycle"
    /\ UNCHANGED << now, started_at, cycle_started, in_grace, ativos, cur, novo, npass,
                    diag, fail_cnt, outcome, alert_state, metrics, sent, fs, served,
                    FAIL_THRESHOLD, RETRY_CHECKS_PER_PASS, MONITOR_CHAT_ID, monitor_logs,
                    log_calls, MAX_LOGS, twilio, loaded, jitter, world, procs, filelock,
                    chkvars >>

\* monitor.py line 141: for bot in list(ativos)
ScriptCycle ==
    /\ mpc = "s_cycle"
    /\ ativos' = s_ativos
    /\ mpc' = IF s_ativos = << >> THEN "s_sleep" ELSE "s_iter"
    /\ UNCHANGED << db, now, msess, started_at, cycle_started, in_grace, cur, novo,
                    npass, diag, fail_cnt, outcome, alert_state, metrics, sent, fs,
                    served, envvars, chkvars >>

\* monitor.py lines 142-144: the one pass of diagnosticar_bot
ScriptPass ==
    /\ mpc = "s_iter"
    /\ cur' = Head(ativos)
    /\ ativos' = Tail(ativos)
    /\ msess' = Load(msess, db, {Head(ativos)})
    /\ diag' \in ScriptReports(MONITOR_CHAT_ID, world[Head(ativos)])
    /\ npass' = 1
    /\ novo' = NoBot
    /\ mpc' = "s_account"
    /\ UNCHANGED << db, now, started_at, cycle_started, in_grace, fail_cnt, outcome,
                    alert_state, metrics, sent, fs, served, envvars, chkvars >>

ScriptNext(rest) == IF rest = << >> THEN "s_sleep" ELSE "s_iter"

\* monitor.py lines 146-153: reset_failures(), commit
ScriptOk ==
    /\ mpc = "s_account"
    /\ diag.decision_ok
    /\ db' = Commit(SetObj(msess, cur, reset_failures(msess.mem[cur], now)), db, now)
    /\ msess' = NoSession
    /\ outcome' = "ok"
    /\ mpc' = ScriptNext(ativos)
    /\ UNCHANGED << now, started_at, cycle_started, in_grace, ativos, cur, novo, npass,
                    diag, fail_cnt, alert_state, metrics, sent, fs, served, envvars,
                    chkvars >>

\* monitor.py lines 156-189: increment_failure(), the alert, and from three
\* failures on the two commits of the replacement
ScriptDown ==
    /\ mpc = "s_account"
    /\ ~diag.decision_ok
    /\ LET o1 == increment_failure(msess.mem[cur], now)
           d1 == Commit(SetObj(msess, cur, mark_reserve(o1, now)), db, now)
           n  == Head(s_reserva)
           s3 == Load(NoSession, d1, {n})
       IN  /\ fail_cnt' = o1.failures
           /\ IF o1.failures >= 3
              THEN IF s_reserva # << >>
                   THEN /\ db' = Commit(SetObj(s3, n, mark_active(s3.mem[n], now)), d1, now)
                        /\ novo' = n
                        /\ s_ativos' = Append(Without(s_ativos, cur), n)
                        /\ s_reserva' = Tail(s_reserva)
                        /\ sent' = [sent EXCEPT !.down = @ + 1, !.swap = @ + 1]
                        /\ msess' = NoSession
                   ELSE /\ db' = d1
                        /\ novo' = NoBot
                        /\ s_ativos' = Without(s_ativos, cur)
                        /\ s_reserva' = s_reserva
                        /\ sent' = [sent EXCEPT !.down = @ + 1, !.crit = @ + 1]
                        /\ msess' = NoSession
              ELSE /\ db' = db
                   /\ novo' = NoBot
                   /\ s_ativos' = s_ativos
                   /\ s_reserva' = s_reserva
                   /\ sent' = [sent EXCEPT !.down = @ + 1]
                   /\ msess' = SetObj(msess, cur, o1)
    /\ outcome' = "down"
    /\ mpc' = ScriptNext(ativos)
    /\ UNCHANGED << now, started_at, cycle_started, in_grace, ativos, cur, npass, diag,
                    alert_state, metrics, fs, served, FAIL_THRESHOLD,
                    RETRY_CHECKS_PER_PASS, MONITOR_CHAT_ID, monitor_logs, log_calls,
                    MAX_LOGS, twilio, loaded, jitter, world, procs, filelock, chkvars >>

\* monitor.py line 191: time.sleep(interval)
ScriptSleep ==
    /\ mpc = "s_sleep"
    /\ now + MONITOR_INTERVAL <= MaxTime
    /\ now' = now + MONITOR_INTERVAL
    /\ mpc' = "s_cycle"
    /\ UNCHANGED << db, msess, started_at, cycle_started, in_grace, ativos, cur, novo,
                    npass, diag, fail_cnt, outcome, alert_state, metrics, sent, fs,
                    served, envvars, chkvars >>

Script == \/ ScriptStart \/ ScriptCycle \/ ScriptPass \/ ScriptOk \/ ScriptDown
          \/ ScriptSleep

\* the rows monitor.py finds: three bots of any status, counts left by
\* earlier runs
ScriptRows == {d \in [Ids -> {NoRow, NewBot("ativo", -10), NewBot("reserva", -10),
                              NewBot("inativo", -10),
                              [NewBot("ativo", -10) EXCEPT !.failures = 2],
                              [NewBot("reserva", -10) EXCEPT !.failures = 1]}] :
                 \A b \in Ids : (d[b] = NoRow) = (b > 3)}

InitScript ==
    /\ db \in ScriptRows
    /\ world = [b \in Ids |-> "any"]
    /\ FAIL_THRESHOLD = 3
    /\ RETRY_CHECKS_PER_PASS = 1
    /\ MONITOR_CHAT_ID \in {"", "chat"}
    /\ jitter = {0}
    /\ InitMonitor
    /\ twilio = "not configured"
    /\ InitService
    /\ InitChecks

SpecScript == InitScript /\ [][Script]_vars

\* the processes a deployment starts: workers importing app.py and runs of
\* monitor.py, each in one of the containers, none past its import yet
StartProcs == {r \in [kind : {"app", "script"}, host : Hosts, enabled : BOOLEAN,
                      fcntl : BOOLEAN, pc : {"import"}] :
                  r.kind = "script" => (r.enabled /\ r.fcntl)}

InitDeploy ==
    /\ db \in StartRows
    /\ FAIL_THRESHOLD = 3
    /\ RETRY_CHECKS_PER_PASS = 1
    /\ MONITOR_CHAT_ID = ""
    /\ jitter = {0}
    /\ world = [b \in Ids |-> "any"]
    /\ InitMonitor
    /\ InitChecks
    /\ twilio = "not configured"
    /\ procs \in [Procs -> StartProcs]
    /\ filelock = [h \in Hosts |-> NoPid]
    /\ s_ativos = << >>
    /\ s_reserva = << >>
    /\ loaded = [r \in Reqs |-> 0]
    /\ monitor_logs = << >>
    /\ log_calls = 0
    /\ MAX_LOGS = 500

Deploy == \E p \in Procs : \/ _start_monitor_background(p)
                           \/ monitor_main(p)
                           \/ worker_exit(p)

SpecDeploy == InitDeploy /\ [][Deploy]_vars

\* ================================================================ properties

\* C1 (as claimed): in every reachable state every bot whose status is not
\* 'ativo' has failures = 0, and failures = 0 right after the sweep of a
\* bot ended recovered.
C1_NonActiveHasNoFailures ==
    /\ \A b \in Ids : db[b].status \notin {"ativo", "absent"} => db[b].failures = 0
    /\ (outcome = "recovered" /\ mpc \in {"iter", "sleep"}) => db[cur].failures = 0

\* C2 (as claimed): the step that completes a failover of the bot `cur`
\* leaves cur 'reserva' with failures = 0 and, if another bot was 'reserva',
\* turns exactly one bot other than cur 'ativo' with failures = 0.
C2_FailoverOutcome ==
    [][(mpc = "swap" /\ mpc' # "swap") =>
          /\ db'[cur].status = "reserva"
          /\ db'[cur].failures = 0
          /\ (WithStatus(db, "reserva") \ {cur} # {}) =>
                \E n \in Ids \ {cur} :
                    /\ db[n].status = "reserva"
                    /\ db'[n].status = "ativo"
                    /\ db'[n].failures = 0
                    /\ \A m \in Ids \ {n} : db'[m].status = db[m].status]_vars

\* C3 (as claimed): the sweep demotes the bot it accounts for if and only
\* if the report is a failure, the count after the increment has reached
\* FAIL_THRESHOLD, the stored status of the bot is 'ativo' and the grace
\* period is over; no other step of the sweep outside a failover changes
\* the status of any bot.
C3_DemotionRule ==
    [][/\ (mpc = "account" /\ mpc' # "account") =>
             ((mpc' = "swap") <=> /\ ~diag.decision_ok
                                  /\ fail_cnt' >= FAIL_THRESHOLD
                                  /\ db[cur].status = "ativo"
                                  /\ ~in_grace)
       /\ (mpc' # mpc /\ mpc # "swap" /\ mpc' # "swap") =>
             \A b \in Ids : db'[b].status = db[b].status]_vars

\* C4 (as claimed): in the end-to-end scenario (e1 'ativo' with a valid
\* token behind a target answering 500, e2 'reserva' behind a target
\* answering 200, FAIL_THRESHOLD = 2, one confirmation round), once the
\* second sweep is over e1 is 'reserva' with failures = 0, e2 is 'ativo'
\* with failures = 0 and exactly one swap alert has been sent.
C4_EndToEnd ==
    \A e1, e2 \in Ids :
        (/\ world[e1] = "target 500"
         /\ world[e2] = "target 200"
         /\ mpc = "sleep"
         /\ cycle_started = MONITOR_INTERVAL) =>
            /\ db[e1].status = "reserva"
            /\ db[e1].failures = 0
            /\ db[e2].status = "ativo"
            /\ db[e2].failures = 0
            /\ sent.swap = 1

\* C5 (as claimed): a force_swap of the bot whose failover by the sweep is
\* under way, having found that bot already 'reserva', changes nothing in
\* the store when it completes.
C5_SecondAttemptChangesNothing ==
    [][\A r \in Reqs :
          (/\ mpc = "swap"
           /\ fs[r].pc = "demoted"
           /\ fs[r].atual = cur
           /\ fs[r].was = "reserva"
           /\ fs'[r].pc = "done") => db' = db]_vars

\* C6: when the first pass over a bot failed and a later pass of the same
\* cycle succeeded, the sweep ends recovered, the stored count of the bot is
\* 0 afterwards and no failure is counted.
C6_RecoveredResets ==
    [][(mpc = "account" /\ diag.decision_ok /\ npass >= 2 /\ mpc' # "account") =>
          /\ outcome' = "recovered"
          /\ db'[cur].failures = 0
          /\ metrics'.failures_total = metrics.failures_total]_vars

\* the only bot failed the sweep under grace and recovered in the next one
C6_Recovered ==
    /\ outcome = "recovered"
    /\ mpc = "sleep"
    /\ ~in_grace
    /\ metrics.failures_total = 1
    /\ \A b \in Ids \ {cur} : db[b] = NoRow
    /\ db[cur].failures = 0

\* C7 (as claimed): a sweep of a bot that ends in a confirmed failure and
\* in no failover raises the stored count of the bot by exactly 1, and
\* nothing else raises the stored count of any bot.
C7_CountByOne ==
    [][/\ (mpc = "account" /\ ~diag.decision_ok /\ mpc' # "account") =>
             (mpc' = "swap" \/ db'[cur].failures = db[cur].failures + 1)
       /\ \A b \in Ids :
             (db[b] # NoRow /\ db'[b].failures > db[b].failures) =>
                (mpc = "account" /\ ~diag.decision_ok /\ mpc' # "account" /\ b = cur)]_vars

\* C8 (as claimed, for a replacement other than the demoted bot): the bot
\* a failover promotes has the oldest updated_at among the bots that are
\* 'reserva', ties broken by the lowest id.
C8_OldestStandby ==
    [][\A n \in Ids \ {cur} :
          (/\ mpc = "swap"
           /\ mpc' # "swap"
           /\ db[n].status = "reserva"
           /\ db'[n].status = "ativo") =>
              \A s \in WithStatus(db, "reserva") \ {cur} :
                  \/ db[n].updated_at < db[s].updated_at
                  \/ (db[n].updated_at = db[s].updated_at /\ n <= s)]_vars

\* C9 (as claimed): a 'down' alert is sent for the first confirmed failure
\* of a bot, and afterwards only when the count reaches FAIL_THRESHOLD or
\* thirty sweep intervals have passed since the last alert for that bot.
C9_AlertPolicy ==
    [][(mpc = "account" /\ ~diag.decision_ok /\ mpc' # "account") =>
          /\ (fail_cnt' = 1) => (sent'.down = sent.down + 1)
          /\ (sent'.down = sent.down + 1) =>
                \/ fail_cnt' = 1
                \/ fail_cnt' >= FAIL_THRESHOLD
                \/ /\ alert_state[cur].last_alert_ts # NoTs
                   /\ now - alert_state[cur].last_alert_ts >= 30 * MONITOR_INTERVAL]_vars

\* C10: a probe that did not run never blocks: each of the three decisions
\* over verdicts with probe_ok = None equals the decision over the same
\* verdicts with probe_ok = True, and is ok when the other verdicts are ok.
C10_IndeterminateProbe ==
    (chk_out.ran /\ chk_out.probe_ok = None) =>
        /\ chk_out.app = decision_app(chk_out.token_ok, chk_out.url_ok, True,
                                      chk_out.webhook_ok)
        /\ chk_out.utils = decision_utils(chk_out.token_ok, chk_out.url_ok, True,
                                          chk_out.webhook_ok)
        /\ chk_out.monitor = decision_monitor(chk_out.token_ok, chk_out.url_ok, True,
                                              chk_out.webhook_ok)
        /\ (chk_out.token_ok /\ chk_out.url_ok /\ chk_out.webhook_ok) =>
              (chk_out.app /\ chk_out.utils /\ chk_out.monitor)

\* the probe did not run and every other verdict is ok
C10_HealthyWithoutProbe ==
    /\ chk_out.ran
    /\ chk_out.probe_ok = None
    /\ chk_out.token_ok /\ chk_out.url_ok /\ chk_out.webhook_ok
    /\ chk_out.app

\* C11 (as claimed): whenever the probe did not fail, the decision the
\* monitor uses is ok exactly when the token, webhook and redirect_url
\* verdicts are all ok; a failed redirect_url or a failed webhook alone
\* makes it not ok.
C11_FullStrict ==
    (chk_out.ran /\ chk_out.probe_ok # False) =>
        (chk_out.app <=> (chk_out.token_ok /\ chk_out.webhook_ok /\ chk_out.url_ok))

\* C12 (as claimed): a probe that did not run makes the decision fail: with
\* probe_ok = None the decision is not ok, whatever the other verdicts are.
C12_ProbePlus ==
    (chk_out.ran /\ chk_out.probe_ok = None) => ~chk_out.app

\* C13 (as claimed): when the sweep has demoted the bot `cur` and no other
\* bot is 'reserva', the failover step sends the 'Falha Critica' alert,
\* promotes no bot, counts no swap and sends no swap alert, and the sweep
\* goes on with the rest of its list.
C13_NoStandbyAvailable ==
    [][(mpc = "swap" /\ mpc' # "swap" /\ WithStatus(db, "reserva") \ {cur} = {}) =>
          /\ sent'.crit = sent.crit + 1
          /\ sent'.swap = sent.swap
          /\ metrics'.switches_total = metrics.switches_total
          /\ \A b \in Ids : db'[b].status = db[b].status
          /\ mpc' = NextPc(ativos)]_vars

\* C14 (as claimed): a failover is one atomic change of the store: every
\* step that turns a bot from 'ativo' to 'reserva' while another bot is
\* 'reserva' turns, in the same step, one of those other bots 'ativo', so
\* that no committed state holds the demotion without the promotion.
C14_AtomicFailover ==
    [][\A b \in Ids :
          (/\ db[b].status = "ativo"
           /\ db'[b].status = "reserva"
           /\ WithStatus(db, "reserva") # {}) =>
              \E n \in WithStatus(db, "reserva") : db'[n].status = "ativo"]_vars

\* C15: force_swap of an 'ativo' bot and the sweep's failover of that bot
\* leave the same rows: from the store the sweep demotes `cur` in, the
\* demotion force_swap would write, whatever the stored failure count of
\* cur, gives the row of cur and the statuses the sweep's demotion gives,
\* and from the store the sweep promotes in, the promotion force_swap
\* would write gives the rows the sweep's promotion gives.
C15_ForceSwapAsFailover ==
    [][/\ (mpc = "account" /\ mpc' = "swap") =>
             \A k \in 0..FAIL_THRESHOLD :
                 LET f == force_demote([db EXCEPT ![cur].failures = k], cur, now)
                 IN  /\ db'[cur] = f[cur]
                     /\ db'[cur].status = "reserva" /\ db'[cur].failures = 0
                     /\ \A b \in Ids : db'[b].status = f[b].status
       /\ (mpc = "swap" /\ mpc' # "swap") =>
             LET f == force_promote(db, now)
             IN  /\ \A b \in Ids : db'[b].status = f[b].status
                 /\ novo' # NoBot => /\ db'[novo'] = f[novo']
                                     /\ db'[novo'].status = "ativo"
                                     /\ db'[novo'].failures = 0]_vars

\* the sweep has replaced cur by another bot, one of two that were 'reserva'
C15_Replaced ==
    /\ mpc \in {"iter", "sleep"}
    /\ novo \notin {NoBot, cur}
    /\ db[cur].status = "reserva"
    /\ db[novo].status = "ativo"
    /\ WithStatus(db, "reserva") \ {cur} # {}
    /\ sent.swap = 1

\* C16 (as claimed): a confirmed failure accounted less than
\* STARTUP_GRACE_SECONDS after the start of the process commits the count
\* raised by 1 and changes the status of no bot; a confirmed failure
\* accounted once that window is over, with the count at FAIL_THRESHOLD or
\* above, starts the failover; a sweep that ends ok starts none.
C16_GraceDefersSwap ==
    [][(mpc = "account" /\ mpc' # "account") =>
          /\ (~diag.decision_ok /\ now - started_at < STARTUP_GRACE_SECONDS) =>
                /\ db'[cur].failures = db[cur].failures + 1
                /\ \A b \in Ids : db'[b].status = db[b].status
                /\ mpc' # "swap"
          /\ (/\ ~diag.decision_ok
              /\ now - started_at >= STARTUP_GRACE_SECONDS
              /\ fail_cnt' >= FAIL_THRESHOLD) => mpc' = "swap"
          /\ diag.decision_ok => mpc' # "swap"]_vars

\* C17 (as claimed, for the workers of app.py alone): whatever processes
\* are started against the table, at most one worker of app.py is inside
\* monitor_loop at any moment.
C17_SingleMonitor ==
    Cardinality({p \in Procs : procs[p].kind = "app" /\ procs[p].pc = "monitor_loop"}) <= 1

\* C18 (as claimed): no exception raised while one bot of the list is
\* handled ends the monitor thread: the loop is never left, so the other
\* bots of the sweep and the later sweeps are still handled.
C18_SweepSurvives == mpc # "dead"

\* C19 (as claimed): the sweep does not overwrite a change committed after
\* its read: whenever the accounting step changes the stored status of
\* `cur`, the status the sweep had read for cur is the stored one, so that
\* a status update_bot or force_swap committed in between is not lost.
C19_NoLostUpdate ==
    [][(mpc = "account" /\ mpc' # "account" /\ db'[cur].status # db[cur].status) =>
          msess.orig[cur].status = db[cur].status]_vars

\* C20 (as claimed): while failovers keep occurring, every bot that is
\* 'reserva' is eventually promoted to 'ativo'.
C20_EveryStandbyPromoted ==
    \A b \in Ids : (db[b].status = "reserva") ~> (db[b].status = "ativo")

\* C21 (as claimed): a monitor loop accounts for a failure (raises the
\* count, demotes) only after at least two failed decision passes over the
\* bot in the same cycle.
C21_TwoFailedPasses ==
    [][(mpc \in {"account", "s_account"} /\ ~diag.decision_ok /\ mpc' # mpc) =>
          npass >= 2]_vars

\* C22: in diagnosticar_bot of app.py a pass that returns ok ends the
\* protocol at once: the report kept is an ok report of that pass, the
\* first pass costs no delay, and the step after it is the accounting of a
\* healthy bot at the same instant, with no further pass.
C22_FirstOkEnds ==
    [][/\ (mpc \in {"pass1", "pass2", "xpass"} /\ diag'.decision_ok) =>
             /\ mpc' = "account"
             /\ diag' \in PassReports(MONITOR_CHAT_ID, world[cur])
             /\ npass' = npass + 1
             /\ mpc = "pass1" => now' = now
       /\ (mpc \in {"pass1", "pass2", "xpass"} /\ mpc' # "account") =>
             ~diag'.decision_ok
       /\ (mpc = "account" /\ diag.decision_ok /\ mpc' # "account") =>
             /\ now' = now
             /\ npass' = 0
             /\ outcome' \in {"ok", "recovered"}
             /\ mpc' = NextPc(ativos)]_vars

\* the first pass over a bot returned ok: one pass, no delay
C22_HealthyAtFirstPass ==
    /\ mpc = "account"
    /\ diag.decision_ok
    /\ npass = 1
    /\ now = cycle_started

\* C23: diagnosticar_bot of app.py returns a report that is not ok if and
\* only if every pass of the protocol failed, that is after its two passes
\* and every extra round, and the report it returns is then a report of
\* the last pass; a report that is ok is the report of a pass that was ok.
C23_DownIffAllFailed ==
    mpc = "account" =>
        /\ diag \in PassReports(MONITOR_CHAT_ID, world[cur])
        /\ ~diag.decision_ok <=> /\ npass = 2 + ExtraRounds
                                 /\ ~diag.decision_ok
        /\ npass \in 1..(2 + ExtraRounds)

\* the two passes and the extra round over a bot all failed
C23_AllPassesFailed ==
    /\ mpc = "account"
    /\ ~diag.decision_ok
    /\ RETRY_CHECKS_PER_PASS = 2
    /\ npass = 3

\* C24: the sweeps of monitor_loop never overlap: the handling of a bot
\* starts only when no bot is being handled, and a sweep starts only when
\* the list of the sweep before it is exhausted and the handling of its
\* last bot, commit and failover included, is over.
C24_SweepsDoNotOverlap ==
    [][/\ (mpc' = "pass1" /\ mpc # "pass1") =>
             (mpc = "iter" /\ npass = 0 /\ diag = NoDiag)
       /\ (mpc = "cycle" /\ mpc' # "cycle") =>
             (ativos = << >> /\ npass = 0 /\ diag = NoDiag)
       /\ (mpc' = "cycle" /\ mpc # "cycle") =>
             (mpc \in {"start", "sleep"} /\ ativos = << >>)
       /\ (mpc' = "sleep" /\ mpc # "sleep") =>
             (mpc \in {"cycle", "account", "swap"} /\ ativos' = << >>)]_vars

\* the second sweep handles a bot the first sweep has handled
C24_SecondSweepRunning ==
    /\ mpc = "pass1"
    /\ cycle_started = MONITOR_INTERVAL
    /\ metrics.checks_total >= 2
    /\ alert_state[cur].present

\* C25: the accounting of a bot whose first pass failed and a later pass
\* of the same cycle succeeded stores failures = 0 and last_ok = the time
\* of the accounting and leaves alert_state of the bot with
\* last_fail_count 0 and no last_alert_ts; and the next confirmed failure
\* of a bot whose alert_state is in that condition sends a 'down' alert.
C25_RecoveredClears ==
    [][/\ (mpc = "account" /\ diag.decision_ok /\ npass >= 2 /\ mpc' # "account") =>
             /\ db'[cur].failures = 0
             /\ db'[cur].last_ok = now
             /\ alert_state'[cur].present
             /\ alert_state'[cur].last_fail_count = 0
             /\ alert_state'[cur].last_alert_ts = NoTs
       /\ (/\ mpc = "account"
           /\ ~diag.decision_ok
           /\ mpc' # "account"
           /\ alert_state[cur].present
           /\ alert_state[cur].last_fail_count = 0) =>
              sent'.down = sent.down + 1]_vars

\* the only bot recovered in the first sweep, five seconds or more after
\* its start, and the confirmed failure of the second sweep was alerted
C25_AlertedAfterRecovery ==
    /\ outcome = "down"
    /\ mpc = "sleep"
    /\ cycle_started = MONITOR_INTERVAL
    /\ served = 0
    /\ \A b \in Ids \ {cur} : db[b] = NoRow
    /\ db[cur].last_ok >= DOUBLECHECK_DELAY_SECONDS
    /\ metrics.checks_total = 2
    /\ metrics.failures_total = 1
    /\ alert_state[cur].last_fail_count = 1
    /\ sent.down = 1

\* C26: the accounting of a confirmed failure whose count stays below
\* FAIL_THRESHOLD leaves the stored status and last_ok of the bot as they
\* were and changes no stored row and no alert_state of any other bot, and
\* sends no swap or critical alert and counts no switch.
C26_DownBelowThresholdFrame ==
    [][(/\ mpc = "account"
        /\ ~diag.decision_ok
        /\ mpc' # "account"
        /\ fail_cnt' < FAIL_THRESHOLD) =>
           /\ mpc' # "swap"
           /\ db'[cur].status = db[cur].status
           /\ db'[cur].last_ok = db[cur].last_ok
           /\ db'[cur].failures \in {db[cur].failures, fail_cnt'}
           /\ \A b \in Ids \ {cur} :
                 /\ db'[b] = db[b]
                 /\ alert_state'[b] = alert_state[b]
                 /\ msess'.mem[b] \in {msess.mem[b], Expired}
           /\ sent'.swap = sent.swap
           /\ sent'.crit = sent.crit
           /\ metrics'.switches_total = metrics.switches_total]_vars

\* a confirmed failure below the threshold was accounted for and stored
\* while another bot is in the table
C26_DownBelowThreshold ==
    /\ outcome = "down"
    /\ mpc \in {"iter", "sleep"}
    /\ fail_cnt >= 1
    /\ fail_cnt < FAIL_THRESHOLD
    /\ db[cur].status = "ativo"
    /\ db[cur].failures = fail_cnt
    /\ db[cur].updated_at = now
    /\ \E b \in Ids \ {cur} : db[b] # NoRow /\ db[b].updated_at < now

C28_FailuresGiveFail ==
    chk_out.ran =>
       /\ (chk_in.r.rt \in {"200 malformed", "401", "exception"}) => ~chk_out.token_ok
       /\ (chk_in.r.rl \in {"302", "404", "500", "exception"}) => ~chk_out.url_ok
       /\ (chk_in.r.rp \in {"200 malformed", "403", "exception"}) =>
             chk_out.probe_ok # True
       /\ (chk_in.r.rw \in {"200 malformed", "500", "exception"}) => ~chk_out.webhook_ok

\* C29: whatever send_whatsapp meets (the message sent, the send failed,
\* the channel not configured), no step leaves the monitor thread or a
\* force_swap request dead, and every step that calls it makes the same
\* updates: a 'down' alert goes with the failure counted and the sweep at
\* the failover or at the next bot, a swap alert with the promotion stored
\* and counted and the sweep at the next bot, a critical alert with the
\* sweep at the next bot, a forced-swap alert with the promotion stored
\* and counted and the request done.
C29_SendOutcomeIgnored ==
    [][/\ mpc' # "dead"
       /\ \A r \in Reqs : fs'[r].pc # "dead"
       /\ (sent'.down # sent.down) =>
             /\ metrics'.failures_total = metrics.failures_total + 1
             /\ alert_state'[cur].last_fail_count = fail_cnt'
             /\ mpc' = IF ~in_grace /\ fail_cnt' >= FAIL_THRESHOLD
                       THEN "swap" ELSE NextPc(ativos)
       /\ (sent'.swap # sent.swap) =>
             /\ db'[novo'].status = "ativo"
             /\ metrics'.switches_total = metrics.switches_total + 1
             /\ mpc' = NextPc(ativos)
       /\ (sent'.crit # sent.crit) => mpc' = NextPc(ativos)
       /\ (sent'.forced # sent.forced) =>
             /\ metrics'.switches_total = metrics.switches_total + 1
             /\ \E r \in Reqs : /\ fs[r].pc = "demoted"
                                /\ fs'[r].pc = "done"
                                /\ db'[fs'[r].novo].status = "ativo"]_vars

\* every send failed, and the sweep alerted, failed over and went to sleep
C29_SweepEndedAfterFailedSends ==
    /\ twilio = "failed"
    /\ mpc = "sleep"
    /\ sent.down >= 1
    /\ sent.swap = 1
    /\ metrics.switches_total = 1
    /\ db[novo].status = "ativo"

\* C30 (as claimed): over a well-formed 200 answer of getWebhookInfo,
\* check_webhook returns False exactly when no url or not the expected one
\* is registered, or an error was registered within the recency window, or
\* updates are pending beyond the ceiling; an answer whose only blemish is
\* an error registered long ago gives True.
C30_WebhookFailsExactly ==
    (/\ chk_out.ran
     /\ chk_in.token # ""
     /\ chk_in.r.rw \in {"healthy", "last_error", "old last_error", "pending", "no url"}) =>
        (~chk_out.webhook_ok <=> chk_in.r.rw \in {"no url", "last_error", "pending"})

\* C31 (as claimed): in every reachable state the stored status of every
\* bot is one of 'ativo', 'reserva', 'inativo'.
C31_StatusIsOneOfThree == \A b \in Ids : db[b] # NoRow => db[b].status \in Statuses

\* C32: a worker of app.py that did not start the monitor at import (the
\* lock was held, or taking it raised, or the monitor is disabled) stays
\* where it is: it never enters monitor_loop and never holds the lock.
C32_IdleStaysIdle ==
    [][\A p \in Procs :
          (procs[p].kind = "app" /\ procs[p].pc = "serving") =>
             /\ procs'[p].pc = "serving"
             /\ \A h \in Hosts : filelock'[h] # p]_vars

\* a worker found the lock of its container held by another worker, which
\* ran the monitor and has ended since: the lock is free and the worker
\* still serves without a monitor
C32_IdleBesideMonitor ==
    \E p, q \in Procs :
        /\ p # q
        /\ procs[p].kind = "app" /\ procs[p].enabled /\ procs[p].fcntl
        /\ procs[p].pc = "serving"
        /\ procs[q].kind = "app"
        /\ procs[q].host = procs[p].host
        /\ procs[q].pc = "exited"
        /\ filelock[procs[p].host] = NoPid

\* C33 (as claimed): alert_state holds an entry only for bots that have a
\* row: once delete_bot removed the row of a bot, no entry of alert_state
\* is kept under its id.
C33_AlertStateOfStoredBots == \A b \in Ids : db[b] = NoRow => ~alert_state[b].present

\* C34: with RETRY_CHECKS_PER_PASS at its default 1 (or below) a bot is
\* accounted as down after exactly two failed passes; every unit of
\* RETRY_CHECKS_PER_PASS above 1 adds exactly one pass, so down is
\* accounted after 1 + RETRY_CHECKS_PER_PASS passes; and a pass after the
\* second that returns ok has the bot accounted as recovered, with no
\* failure counted.
C34_PassesPerCycle ==
    [][(mpc = "account" /\ mpc' # "account") =>
          /\ ~diag.decision_ok =>
                /\ npass = IF RETRY_CHECKS_PER_PASS <= 1 THEN 2
                           ELSE 1 + RETRY_CHECKS_PER_PASS
                /\ outcome' = "down"
          /\ (diag.decision_ok /\ npass >= 3) =>
                /\ npass <= 1 + RETRY_CHECKS_PER_PASS
                /\ outcome' = "recovered"
                /\ metrics'.failures_total = metrics.failures_total
                /\ db'[cur].failures = 0]_vars

\* the bot failed its two passes and the first extra round, and the
\* second extra round returned ok
C34_RecoveredInExtraRound ==
    /\ outcome = "recovered"
    /\ RETRY_CHECKS_PER_PASS = 3
    /\ mpc = "sleep"
    /\ now >= cycle_started + DOUBLECHECK_DELAY_SECONDS + 2
    /\ db[cur].last_ok = now
    /\ metrics.failures_total = 0

\* C35 (as claimed): whenever no force_swap is between its commit and its
\* count, switches_total equals the number of swaps completed by the
\* monitor and by force_swap; failures_total never exceeds checks_total;
\* and none of the three counters ever decreases.
C35_MetricsCountSwaps ==
    [][/\ (\A r \in Reqs : fs'[r].pc # "adding") =>
             metrics'.switches_total = sent'.swap + sent'.forced
       /\ metrics'.failures_total <= metrics'.checks_total
       /\ metrics'.checks_total >= metrics.checks_total
       /\ metrics'.failures_total >= metrics.failures_total
       /\ metrics'.switches_total >= metrics.switches_total]_vars

\* C36 (as claimed): a force_swap leaves no more 'ativo' bots than it
\* found: the step that completes the request adds an 'ativo' bot only if
\* the request had demoted one.
C36_ForceSwapAddsNoActive ==
    [][\A r \in Reqs :
          (fs[r].pc = "demoted" /\ fs'[r].pc = "done") =>
             Cardinality(WithStatus(db', "ativo")) <=
                Cardinality(WithStatus(db, "ativo")) +
                   (IF fs[r].was = "ativo" THEN 1 ELSE 0)]_vars

\* C37 (as claimed): a force_swap that finds no bot 'reserva' other than
\* the one it was called for answers 409 'no bots in reserve': it promotes
\* no bot and leaves switches_total as it was.
C37_ForceSwapWithoutStandby ==
    [][\A r \in Reqs :
          (/\ fs[r].pc = "demoted"
           /\ fs'[r].pc = "done"
           /\ WithStatus(db, "reserva") \ {fs[r].atual} = {}) =>
              /\ sent'.nores = sent.nores + 1
              /\ WithStatus(db', "ativo") = WithStatus(db, "ativo")
              /\ metrics'.switches_total = metrics.switches_total]_vars

\* C38: for MAX_LOGS >= 0, after any sequence of add_log calls by any
\* threads monitor_logs holds at most MAX_LOGS lines, and they are the
\* lines of the most recent calls in the order of the calls: the line
\* dropped is always the oldest.
C38_LogBounded ==
    /\ Len(monitor_logs) <= MAX_LOGS
    /\ Len(monitor_logs) = IF log_calls <= MAX_LOGS THEN log_calls ELSE MAX_LOGS
    /\ \A i \in 1..Len(monitor_logs) :
          monitor_logs[i].n = log_calls - Len(monitor_logs) + i

\* more calls than MAX_LOGS were made by the two threads and lines were
\* dropped
C38_LinesDropped ==
    /\ MAX_LOGS = 3
    /\ log_calls = MAX_LOGS + 2
    /\ Len(monitor_logs) = MAX_LOGS
    /\ monitor_logs[1].n = 3
    /\ \E i, j \in 1..Len(monitor_logs) : monitor_logs[i].by # monitor_logs[j].by

\* C39: in monitor_loop of monitor.py the list `reserva` is loaded at the
\* start and only consumed from its head afterwards: a promotion takes
\* the head of the list and removes it, the demoted bot never enters the
\* list, and a bot that reaches three failures while the list is empty
\* is taken out of `ativos` (one bot fewer, in the list and in the table),
\* no bot is promoted and the 'no more reserve bots' alert is sent.
C39_ReserveConsumedInOrder ==
    [][/\ (mpc # "start") =>
             /\ s_reserva' \in {s_reserva} \cup
                                (IF s_reserva = << >> THEN {} ELSE {Tail(s_reserva)})
             /\ (novo' # NoBot /\ novo' # novo) =>
                   (s_reserva # << >> /\ novo' = Head(s_reserva)
                                      /\ s_reserva' = Tail(s_reserva))
       /\ (mpc = "s_account" /\ mpc' # "s_account" /\ db'[cur].status = "reserva") =>
             /\ \A i \in 1..Len(s_reserva') : s_reserva'[i] # cur
             /\ \A i \in 1..Len(s_ativos') : s_ativos'[i] # cur
       /\ (/\ mpc = "s_account"
           /\ mpc' # "s_account"
           /\ ~diag.decision_ok
           /\ fail_cnt' >= 3
           /\ s_reserva = << >>) =>
              /\ Len(s_ativos') = Len(s_ativos) - 1
              /\ WithStatus(db', "ativo") = WithStatus(db, "ativo") \ {cur}
              /\ novo' = NoBot
              /\ sent'.crit = sent.crit + 1
              /\ sent'.swap = sent.swap]_vars

\* the only reserve bot was promoted for the first bot that reached three
\* failures, and the next one to reach them was taken out with no
\* replacement
C39_ReserveExhausted ==
    /\ mpc \in {"s_iter", "s_sleep"}
    /\ s_reserva = << >>
    /\ sent.swap = 1
    /\ sent.crit = 1
    /\ novo = NoBot
    /\ db[cur].status = "reserva"
    /\ Len(s_ativos) = 1
    /\ db[s_ativos[1]].status = "ativo"

\* C40: the start of monitor_loop of monitor.py, when no bot is 'ativo'
\* and n >= 1 bots are 'reserva', turns exactly min(2, n) of the 'reserva'
\* bots 'ativo' with failures = 0 and changes no other row; when a bot is
\* 'ativo' or none is 'reserva' it changes no row. The lists the sweeps
\* work on are then the 'ativo' and the 'reserva' bots of the table.
C40_StartPromotesTwo ==
    [][(mpc = "start" /\ mpc' # "start") =>
          LET A == WithStatus(db, "ativo")
              R == WithStatus(db, "reserva")
              P == WithStatus(db', "ativo")
          IN  /\ IF A = {} /\ R # {}
                 THEN /\ P \subseteq R
                      /\ Cardinality(P) = IF Cardinality(R) >= 2 THEN 2 ELSE Cardinality(R)
                      /\ \A b \in P : db'[b].failures = 0
                      /\ \A b \in Ids \ P : db'[b] = db[b]
                 ELSE db' = db
              /\ {s_ativos'[i] : i \in 1..Len(s_ativos')} = P
              /\ {s_reserva'[i] : i \in 1..Len(s_reserva')} = WithStatus(db', "reserva")]_vars

\* the table held three 'reserva' bots and no 'ativo' one: two were
\* activated at the start and the third is the reserve
C40_TwoActivated ==
    /\ mpc = "s_cycle"
    /\ now = 0
    /\ Len(s_ativos) = 2
    /\ Len(s_reserva) = 1
    /\ \A i \in 1..2 : /\ db[s_ativos[i]].status = "ativo"
                       /\ db[s_ativos[i]].updated_at = 0
                       /\ db[s_ativos[i]].last_ok = 0
    /\ db[s_reserva[1]].updated_at < 0

====
